---- MODULE Spec2Model ----
(***************************************************************************)
(* A model of exif_gps_from_geoclip.py: the per-image annotation routine   *)
(* update_exif_date, the directory loop process_directory, and the pure    *)
(* encoders to_deg, change_to_rational and gps_ifd.                        *)
(*                                                                         *)
(* Two specifications are given.  Spec is the file-system level state      *)
(* machine of process_directory / update_exif_date, one action per         *)
(* statement that can fail, be interrupted, or touch the directory.        *)
(* EncSpec applies the pure encoders to inputs drawn from bounded sets.    *)
(***************************************************************************)
EXTENDS Integers, Sequences, FiniteSets, TLC

VARIABLES
    fs,          \* directory contents: name -> file content, or NoFile
    pc,          \* position of the single thread of control
    runs,        \* number of process_directory invocations started so far
    flags,       \* [dry_run, update, force] of the current invocation
    listing,     \* sorted(file_names) of the current invocation
    idx,         \* position of the for-loop in listing
    calls,       \* name -> number of update_exif_date calls in this invocation
    results,     \* name -> value returned by update_exif_date in this invocation
    errors,      \* names for which an error was logged in this invocation
    image_path,  \* argument of the current update_exif_date call (0: none)
    exif_dict,   \* the in-memory metadata container of the current call
    tmp,         \* name of the temporary file created by the current call (0: none)
    hist,        \* history of the current call (see NoHist)
    encIn,       \* EncSpec: the arguments of the encoder under test
    encOut       \* EncSpec: its result (NoOut before it has run)

vars == <<fs, pc, runs, flags, listing, idx, calls, results, errors, image_path,
          exif_dict, tmp, hist, encIn, encOut>>

mainVars == <<fs, pc, runs, flags, listing, idx, calls, results, errors, image_path,
              exif_dict, tmp, hist>>

encVars == <<encIn, encOut>>

(***************************************************************************)
(* Bounds of the model.                                                    *)
(***************************************************************************)
MaxRuns == 2      \* process_directory invocations in one behaviour
MaxTmp == 1       \* temporary file names available in the directory
MaxPos == 2       \* predicted coordinates lie on a line at 0..MaxPos steps
TopK == 3         \* the top_k argument (at least 2, spec section 6)

(***************************************************************************)
(* Program constants.                                                      *)
(***************************************************************************)
max_distance == 20    \* default of update_exif_date / process_directory, km

(***************************************************************************)
(* Names in the directory.  1, 2, 3 are the files present at the start:     *)
(* an image "a.JPG", a file "b.png" that is no image, and "notes.txt".     *)
(* The others are the names NamedTemporaryFile can hand out ("tmp....").   *)
(* Integer order is the order of sorted().                                 *)
(***************************************************************************)
FileNames == {1, 2, 3}
TmpNames == {3 + k : k \in 1..MaxTmp}
Names == FileNames \cup TmpNames

\* Path(filename).suffix: the suffix is part of the directory entry
SuffixOf(fsys, n) == fsys[n].suffix

\* str.lower() on the suffixes that occur
Lower(s) == IF s = ".JPG" THEN ".jpg" ELSE s

SupportedSuffixes == {".jpg", ".jpeg", ".tif", ".webp", ".tiff", ".png"}

\* the filter of process_directory
Supported(fsys, n) == Lower(SuffixOf(fsys, n)) \in SupportedSuffixes

(***************************************************************************)
(* File contents.                                                          *)
(***************************************************************************)
GpsTags == {"GPSVersionID", "GPSLatitudeRef", "GPSLatitude", "GPSLongitudeRef",
            "GPSLongitude", "GPSAltitudeRef", "GPSAltitude", "GPSTimeStamp"}

NoFile == [kind |-> "nofile"]

NoGps == [t \in GpsTags |-> "absent"]

\* a GPS section holding the tags of ts, written by `who`
GpsWith(ts, who) == [t \in GpsTags |-> IF t \in ts THEN who ELSE "absent"]

\* the keys of the dictionary gps_ifd(lat, lng) returns (altitude=None)
GpsIfdKeys == {"GPSVersionID", "GPSLatitudeRef", "GPSLatitude", "GPSLongitudeRef",
               "GPSLongitude"}

\* an image file and its metadata container as piexif.load would return it
\*   data    "full", "partial" (truncated) or "empty"
\*   exif    "none" (no exif in img.info), "ok", "bad" (piexif.load raises)
\*   gps     the GPS section: tag -> "absent", "old" (not written in this
\*           behaviour) or "new" (written by a commit of this behaviour)
\*   gmark   exif_dict["GPS"].get(PROCESSED_TAG_INDEX)
\*   emark   exif_dict["Exif"].get(PROCESSED_TAG_INDEX)
\*   coord   the coordinate a commit of this behaviour stored, else -1
\*   suffix  the suffix of the file's name
Img(exif, gps, gmark, emark) ==
    [kind |-> "image", data |-> "full", suffix |-> "", exif |-> exif, gps |-> gps,
     gmark |-> gmark, emark |-> emark, coord |-> -1]

\* a file that is no image (Image.open: "cannot identify image file")
Junk == [kind |-> "junk", data |-> "full", suffix |-> "", exif |-> "none",
         gps |-> NoGps, gmark |-> "absent", emark |-> "absent", coord |-> -1]

Named(c, suffix) == [c EXCEPT !.suffix = suffix]

\* the kinds of image a directory can hold before the tool runs: without exif
\* data; with an altitude but no position; with a position written by other
\* software (and possibly a value of other software under PROCESSED_TAG_INDEX
\* in the Exif section); with the position and the marker an earlier
\* invocation of this program wrote (lines 127-129); with exif data that
\* cannot be parsed; and no image at all.
\* piexif.load keeps only registered tags, and PROCESSED_TAG_INDEX is
\* registered for the Exif section alone (line 21), so gmark is "absent" in
\* every file.
InitImages ==
    { Img("none", NoGps, "absent", "absent"),
      Img("ok", GpsWith({"GPSAltitudeRef", "GPSAltitude", "GPSTimeStamp"}, "old"),
          "absent", "absent"),
      Img("ok", GpsWith(GpsTags, "old"), "absent", "absent"),
      Img("ok", GpsWith(GpsTags, "old"), "absent", "foreign"),
      Img("ok", GpsWith(GpsIfdKeys, "old"), "absent", "current"),
      Img("bad", NoGps, "absent", "absent"),
      Junk }

\* what NamedTemporaryFile creates: an empty file
EmptyFile(suffix) ==
    [kind |-> "image", data |-> "empty", suffix |-> suffix, exif |-> "none",
     gps |-> NoGps, gmark |-> "absent", emark |-> "absent", coord |-> -1]

\* a temporary file img.save was writing when it stopped: the file is cut
\* inside its metadata, so it either cannot be opened or its exif data cannot
\* be parsed
PartialFile(suffix) ==
    [kind |-> "image", data |-> "partial", suffix |-> suffix, exif |-> "bad",
     gps |-> NoGps, gmark |-> "absent", emark |-> "absent", coord |-> -1]

(***************************************************************************)
(* Pure helpers of update_exif_date.                                       *)
(***************************************************************************)
Pos == 0..MaxPos

\* distance(lat, lon, top_lat, top_lon) in km: the modelled coordinates lie
\* 20 km apart on a line, so that 0 km, exactly 20 km and 40 km all occur
Distance(a, b) == 20 * (IF a >= b THEN a - b ELSE b - a)

\* bytes.decode("ascii").startswith(PROCESSED_TAG_NON_VARIABLE); an absent
\* marker reads as b"".  "current" is PROCESSED_TAG, "older" the tag of an
\* earlier VERSION, "foreign" a value of other software
MarkerPrefixed(m) == m \in {"older", "current"}

\* the container of an image without exif data (line 105)
EmptyDict == [gps |-> NoGps, gmark |-> "absent", emark |-> "absent", coord |-> -1]

NoDict == [gps |-> NoGps, gmark |-> "absent", emark |-> "absent", coord |-> -2]

\* lines 102-105
LoadExif(c) ==
    IF c.exif = "none" THEN EmptyDict
    ELSE [gps |-> c.gps, gmark |-> c.gmark, emark |-> c.emark, coord |-> c.coord]

\* a variant of Eligible that looks for the latitude tag among the section
\* names of the container instead of in its GPS section, and never finds it
EligibleWrongDict(d, update, force) ==
    \/ "GPSLatitude" \notin {"0th", "1st", "Exif", "GPS", "Interop"}
    \/ (MarkerPrefixed(d.gmark) /\ update)
    \/ force

\* the condition of lines 108-110
Eligible(d, update, force) ==
    \/ d.gps["GPSLatitude"] = "absent"
    \/ (MarkerPrefixed(d.gmark) /\ update)
    \/ force

\* a variant of SanityLoop that also rejects a prediction at exactly
\* max_distance
RECURSIVE SanityLoopGE(_, _)
SanityLoopGE(p, i) ==
    IF i > TopK THEN "accept"
    ELSE IF i > Len(p) THEN "error"
    ELSE IF Distance(p[i], p[1]) >= max_distance THEN "reject"
    ELSE SanityLoopGE(p, i + 1)

\* the loop of lines 116-121 from index i on (1-based; top is element 1):
\* "reject" is the return False of line 121, "error" the IndexError of a
\* prediction list shorter than top_k, "accept" the loop running out
RECURSIVE SanityLoop(_, _)
SanityLoop(p, i) ==
    IF i > TopK THEN "accept"
    ELSE IF i > Len(p) THEN "error"
    ELSE IF Distance(p[i], p[1]) > max_distance THEN "reject"
    ELSE SanityLoop(p, i + 1)

\* dict.update: the keys of the new block are overwritten, the others stay
GpsUpdate(g, keys) == [t \in GpsTags |-> IF t \in keys THEN "new" ELSE g[t]]

\* lines 127 and 129
Merged(d, top) ==
    [d EXCEPT !.gps = GpsUpdate(d.gps, GpsIfdKeys), !.emark = "current", !.coord = top]

\* the file img.save(tmp.name, exif=exif_bytes) produces from image src
NewContent(d, src) ==
    [kind |-> "image", data |-> "full", suffix |-> src.suffix, exif |-> "ok",
     gps |-> d.gps, gmark |-> d.gmark, emark |-> d.emark, coord |-> d.coord]

\* `except Exception` (lines 92 and 144) catches every error of a step;
\* KeyboardInterrupt is no Exception and is modelled by Interrupt
ExceptionKinds == {"open", "load", "predict", "index", "dump", "mktemp", "save", "replace"}

\* a variant of Caught for a handler `except OSError`, which lets the
\* IndexError of a short prediction list and the errors of the libraries pass
CaughtOSErrorOnly(kind) == kind \in {"open", "mktemp", "save", "replace"}

Caught(kind) == kind \in ExceptionKinds

\* sorted(file_names) of a directory
RECURSIVE SortedNames(_, _)
SortedNames(fsys, n) ==
    IF n \notin Names THEN <<>>
    ELSE (IF fsys[n] = NoFile THEN <<>> ELSE <<n>>) \o SortedNames(fsys, n + 1)

\* the largest distance of a lower-ranked prediction from the top-ranked one
MaxDistance(p) ==
    LET ds == {Distance(p[i], p[1]) : i \in 2..Len(p)}
    IN  IF ds = {} THEN 0 ELSE CHOOSE d \in ds : \A e \in ds : e <= d

\* what is recorded about the current call, for the properties below:
\*   dir0       the directory when the call began
\*   eligible   the decision of lines 108-110 ("none" before it is taken)
\*   consulted  model.predict was called
\*   top, len, maxd  of the prediction list it returned: the top-ranked
\*              coordinate, the length, MaxDistance
\*   verdict    the outcome of the sanity loop
\*   replaced   os.replace was carried out
\*   failed     the step that raised ("none": no error)
NoHist == [dir0 |-> <<>>, eligible |-> "none", consulted |-> FALSE, top |-> -1,
           len |-> 0, maxd |-> 0, verdict |-> "none", replaced |-> FALSE,
           failed |-> "none"]

(***************************************************************************)
(* The encoders.  A coordinate is a decimal number of degrees, held here   *)
(* in fixed point: sign, whole degrees, and the fraction in units of a     *)
(* quarter of 10^-5 arc seconds, finer than the precision to_deg rounds    *)
(* to.  An altitude is held in half metres.  Seconds are returned as an    *)
(* integer number of 10^-5 arc seconds.                                    *)
(***************************************************************************)
Digits == 5                            \* round(..., 5) in to_deg
Scale == 10 ^ Digits
UnitsPerSecond == 4 * Scale
UnitsPerMinute == 60 * UnitsPerSecond
UnitsPerDegree == 60 * UnitsPerMinute

MaxOff == 3       \* fractions lie within MaxOff units of a minute boundary
MaxAlt2 == 3      \* altitudes lie within MaxAlt2 half metres of sea level

\* round(): x / d to the nearest integer, ties to the even one (x >= 0, d > 0)
RoundDiv(x, d) ==
    LET q == x \div d
        r == x % d
    IN  IF 2 * r < d THEN q
        ELSE IF 2 * r > d THEN q + 1
        ELSE IF q % 2 = 0 THEN q ELSE q + 1

\* round(altitude) of an altitude of a2 half metres
RoundHalves(a2) == IF a2 >= 0 THEN RoundDiv(a2, 2) ELSE 0 - RoundDiv(0 - a2, 2)

\* to_deg(value, loc): <<deg, min, sec, loc_value>>
to_deg(value, loc) ==
    LET loc_value == IF value.sign < 0 THEN loc[1]
                     ELSE IF value.sign > 0 THEN loc[2]
                     ELSE ""
        deg == value.deg                         \* int(abs_value)
        t1 == value.frac                         \* (abs_value - deg) * 60, in minutes
        min == t1 \div UnitsPerMinute            \* int(t1)
        sec == RoundDiv(t1 - min * UnitsPerMinute, UnitsPerSecond \div Scale)
    IN  <<deg, min, sec, loc_value>>

RECURSIVE GCD(_, _)
GCD(a, b) == IF b = 0 THEN a ELSE GCD(b, a % b)

Abs(x) == IF x < 0 THEN 0 - x ELSE x

\* Fraction(str(number)) in lowest terms, for the number n / d (d > 0)
change_to_rational(n, d) ==
    LET g == GCD(Abs(n), d) IN <<n \div g, d \div g>>

\* gps_ifd(lat, lng, altitude): the dictionary, as tag -> value;
\* altitude is [none |-> TRUE] or [none |-> FALSE, halves |-> a2]
gps_ifd(lat, lng, altitude) ==
    LET lat_deg == to_deg(lat, <<"S", "N">>)
        lng_deg == to_deg(lng, <<"W", "E">>)
        exiv_lat == <<change_to_rational(lat_deg[1], 1), change_to_rational(lat_deg[2], 1),
                      change_to_rational(lat_deg[3], Scale)>>
        exiv_lng == <<change_to_rational(lng_deg[1], 1), change_to_rational(lng_deg[2], 1),
                      change_to_rational(lng_deg[3], Scale)>>
        base == [GPSVersionID |-> <<2, 0, 0, 0>>,
                 GPSLatitudeRef |-> lat_deg[4],
                 GPSLatitude |-> exiv_lat,
                 GPSLongitudeRef |-> lng_deg[4],
                 GPSLongitude |-> exiv_lng]
    IN  IF altitude.none
        THEN base
        ELSE [GPSVersionID |-> base.GPSVersionID,
              GPSLatitudeRef |-> base.GPSLatitudeRef,
              GPSLatitude |-> base.GPSLatitude,
              GPSLongitudeRef |-> base.GPSLongitudeRef,
              GPSLongitude |-> base.GPSLongitude,
              GPSAltitudeRef |-> <<1>>,
              GPSAltitude |-> change_to_rational(RoundHalves(altitude.halves), 1)]

\* a coordinate of the given sign, whole degrees and fraction
Coord(sign, deg, frac) ==
    [sign |-> IF deg = 0 /\ frac = 0 THEN 0 ELSE sign, deg |-> deg, frac |-> frac]

\* fractions of a degree at and around the minute boundaries 0', 1', 59', 60';
\* those whose seconds lie exactly halfway between two multiples of 10^-5
\* are left out, a binary float being no such tie
FracSamples ==
    {f \in {m * UnitsPerMinute + d : m \in {0, 1, 59, 60}, d \in (0 - MaxOff)..MaxOff} :
        /\ f \in 0..(UnitsPerDegree - 1)
        /\ 2 * (f % (UnitsPerSecond \div Scale)) # UnitsPerSecond \div Scale}

\* coordinates in [-180, 180]
CoordSamples ==
    {Coord(s, d, f) : s \in {-1, 1}, d \in {0, 1, 89, 179}, f \in FracSamples}
        \cup {Coord(s, 180, 0) : s \in {-1, 1}}

\* latitudes and longitudes gps_ifd is applied to
LatSamples == {Coord(1, 48, 51 * UnitsPerMinute), Coord(-1, 33, UnitsPerMinute - 1), Coord(1, 0, 0)}
LngSamples == {Coord(1, 2, 21 * UnitsPerMinute), Coord(-1, 70, 40 * UnitsPerMinute)}

AltSamples == {[none |-> TRUE]} \cup {[none |-> FALSE, halves |-> a] : a \in (0 - MaxAlt2)..MaxAlt2}

(***************************************************************************)
(* Spec: process_directory and update_exif_date.                           *)
(***************************************************************************)
EncIdle == encIn = <<>> /\ encOut = <<>>

Init ==
    /\ \E c1 \in InitImages :
          fs = [n \in Names |->
                   CASE n = 1 -> Named(c1, ".JPG")
                     [] n = 2 -> Named(Junk, ".png")
                     [] n = 3 -> Named(Junk, ".txt")
                     [] OTHER -> NoFile]
    /\ pc = "idle"
    /\ runs = 0
    /\ flags = [dry_run |-> TRUE, update |-> FALSE, force |-> FALSE]
    /\ listing = <<>>
    /\ idx = 1
    /\ calls = [n \in Names |-> 0]
    /\ results = [n \in Names |-> "none"]
    /\ errors = {}
    /\ image_path = 0
    /\ exif_dict = NoDict
    /\ tmp = 0
    /\ hist = NoHist
    /\ EncIdle

\* a call's local state is dropped when it is over
ClearCall ==
    /\ image_path' = 0
    /\ exif_dict' = NoDict
    /\ tmp' = 0
    /\ hist' = NoHist

\* process_directory(directory, wet_run, update, force) up to the first
\* iteration of the loop; the bound MaxRuns caps the number of invocations
StartRun ==
    /\ pc \in {"idle", "killed"}
    /\ runs < MaxRuns
    /\ \E wet_run \in BOOLEAN, update \in BOOLEAN, force \in BOOLEAN :
          flags' = [dry_run |-> ~wet_run, update |-> update, force |-> force]
    /\ runs' = runs + 1
    /\ listing' = SortedNames(fs, 1)
    /\ idx' = 1
    /\ calls' = [n \in Names |-> 0]
    /\ results' = [n \in Names |-> "none"]
    /\ errors' = {}
    /\ pc' = "walk"
    /\ ClearCall
    /\ UNCHANGED <<fs, encVars>>

\* lines 183-191: a file whose suffix is not supported is passed over
SkipFile ==
    /\ pc = "walk"
    /\ idx <= Len(listing)
    /\ ~Supported(fs, listing[idx])
    /\ idx' = idx + 1
    /\ UNCHANGED <<fs, pc, runs, flags, listing, calls, results, errors, image_path,
                   exif_dict, tmp, hist, encVars>>

\* line 194: update_exif_date(image_path, not wet_run, update, force, ...)
CallUpdate ==
    /\ pc = "walk"
    /\ idx <= Len(listing)
    /\ Supported(fs, listing[idx])
    /\ image_path' = listing[idx]
    /\ calls' = [calls EXCEPT ![listing[idx]] = @ + 1]
    /\ hist' = [NoHist EXCEPT !.dir0 = fs]
    /\ pc' = "open"
    /\ UNCHANGED <<fs, runs, flags, listing, idx, results, errors, exif_dict, tmp,
                   encVars>>

\* lines 197-201: the loop is over
Finish ==
    /\ pc = "walk"
    /\ idx > Len(listing)
    /\ pc' = "idle"
    /\ UNCHANGED <<fs, runs, flags, listing, idx, calls, results, errors, image_path,
                   exif_dict, tmp, hist, encVars>>

\* update_exif_date returns val to line 194
Return(val) ==
    /\ pc' = "ret"
    /\ results' = [results EXCEPT ![image_path] = val]
    /\ UNCHANGED errors

\* a step of update_exif_date goes on to position p
Goto(p) ==
    /\ pc' = p
    /\ UNCHANGED <<results, errors>>

\* an error of kind `kind` is raised inside update_exif_date, h being the
\* call's history so far: the handlers of lines 92-98 and 144-146 log it and
\* return False
Raise(kind, h) ==
    /\ hist' = [h EXCEPT !.failed = kind]
    /\ IF Caught(kind)
       THEN /\ pc' = "ret"
            /\ results' = [results EXCEPT ![image_path] = "False"]
            /\ errors' = errors \cup {image_path}
       ELSE /\ pc' = "crashed"
            /\ UNCHANGED <<results, errors>>

\* lines 90-98: Image.open.  A file that is no image or is empty cannot be
\* opened; a truncated one may or may not be
OpenImage ==
    /\ pc = "open"
    /\ LET c == fs[image_path] IN
       \E ok \in BOOLEAN :
          /\ ok => (c.kind = "image" /\ c.data # "empty")
          /\ ~ok => (c.kind # "image" \/ c.data # "full")
          /\ IF ok
             THEN Goto("load") /\ UNCHANGED hist
             ELSE Raise("open", hist)
    /\ UNCHANGED <<fs, runs, flags, listing, idx, calls, image_path, exif_dict,
                   tmp, encVars>>

\* lines 102-110 and 141-146: read the container and decide
LoadAndDecide ==
    /\ pc = "load"
    /\ LET c == fs[image_path] IN
       IF c.exif = "bad"
       THEN Raise("load", hist) /\ UNCHANGED exif_dict
       ELSE /\ exif_dict' = LoadExif(c)
            /\ IF Eligible(LoadExif(c), flags.update, flags.force)
               THEN /\ hist' = [hist EXCEPT !.eligible = "yes"]
                    /\ Goto("predict")
               ELSE /\ hist' = [hist EXCEPT !.eligible = "no"]
                    /\ Return("False")
    /\ UNCHANGED <<fs, runs, flags, listing, idx, calls, image_path, tmp, encVars>>

\* a variant of IsDryRun for a call that never tests the flag
IsDryRunNever(f) == FALSE

\* line 122
IsDryRun(f) == f.dry_run

\* lines 111-129: model.predict returns top_k ranked coordinates, or fewer, or
\* raises; then the sanity check, the dry-run return, and the merge of the new
\* GPS block and the marker into the container.  Nothing outside the call can
\* observe a state between these statements.
PredictAndCheck ==
    /\ pc = "predict"
    /\ \/ \E p \in [1..TopK -> Pos] \cup [1..(TopK - 1) -> Pos] :
            LET v == SanityLoop(p, 2)
                h == [hist EXCEPT !.consulted = TRUE, !.verdict = v, !.top = p[1],
                                  !.len = Len(p), !.maxd = MaxDistance(p)]
            IN  CASE v = "reject" ->
                        /\ hist' = h
                        /\ Return("False")
                        /\ UNCHANGED exif_dict
                  [] v = "error" ->
                        /\ Raise("index", h)
                        /\ UNCHANGED exif_dict
                  [] v = "accept" /\ IsDryRun(flags) ->
                        /\ hist' = h
                        /\ Return("True")
                        /\ UNCHANGED exif_dict
                  [] OTHER ->
                        /\ hist' = h
                        /\ exif_dict' = Merged(exif_dict, p[1])
                        /\ Goto("dump")
       \/ /\ Raise("predict", [hist EXCEPT !.consulted = TRUE])
          /\ UNCHANGED exif_dict
    /\ UNCHANGED <<fs, runs, flags, listing, idx, calls, image_path, tmp, encVars>>

\* line 132: piexif.dump
Dump ==
    /\ pc = "dump"
    /\ \/ Goto("mktemp") /\ UNCHANGED hist
       \/ Raise("dump", hist)
    /\ UNCHANGED <<fs, runs, flags, listing, idx, calls, image_path, exif_dict,
                   tmp, encVars>>

\* lines 133-135: NamedTemporaryFile(delete=False, suffix=image_path.suffix,
\* dir=image_path.parent) creates an empty file under a fresh name, or fails
MkTemp ==
    /\ pc = "mktemp"
    /\ \/ /\ \E t \in TmpNames :
                /\ fs[t] = NoFile
                /\ \A u \in TmpNames : u < t => fs[u] # NoFile
                /\ tmp' = t
                /\ fs' = [fs EXCEPT ![t] = EmptyFile(SuffixOf(fs, image_path))]
          /\ Goto("save")
          /\ UNCHANGED hist
       \/ Raise("mktemp", hist) /\ UNCHANGED <<fs, tmp>>
    /\ UNCHANGED <<runs, flags, listing, idx, calls, image_path, exif_dict, encVars>>

\* a variant of SaveTarget that saves in place
SaveTargetInPlace == image_path

\* the file img.save writes to: tmp.name (line 136)
SaveTarget == tmp

\* line 136: img.save(tmp.name, exif=exif_bytes) writes its target in pieces;
\* the pixels come from the file at image_path, which must be whole, and img
\* is the image opened when the call began.  An error leaves the target as
\* far as it was written: with delete=False, leaving the with block only
\* closes the temporary file
Save ==
    /\ \/ /\ pc = "save"
          /\ fs[image_path].data = "full"
          /\ fs' = [fs EXCEPT ![SaveTarget] = PartialFile(SuffixOf(fs, image_path))]
          /\ Goto("saving")
          /\ UNCHANGED hist
       \/ /\ pc = "saving"
          /\ fs' = [fs EXCEPT ![SaveTarget] =
                       NewContent(exif_dict, hist.dir0[image_path])]
          /\ Goto("replace")
          /\ UNCHANGED hist
       \/ /\ pc \in {"save", "saving"}
          /\ Raise("save", hist)
          /\ UNCHANGED fs
    /\ UNCHANGED <<runs, flags, listing, idx, calls, image_path, exif_dict, tmp,
                   encVars>>

\* lines 138-140: os.replace(tmp.name, image_path), then return True
Replace ==
    /\ pc = "replace"
    /\ \/ /\ fs' = [fs EXCEPT ![image_path] = fs[tmp], ![tmp] = NoFile]
          /\ hist' = [hist EXCEPT !.replaced = TRUE]
          /\ Return("True")
       \/ Raise("replace", hist) /\ UNCHANGED fs
    /\ UNCHANGED <<runs, flags, listing, idx, calls, image_path, exif_dict, tmp,
                   encVars>>

\* lines 194-196: back in the loop, on to the next file
AfterCall ==
    /\ pc = "ret"
    /\ idx' = idx + 1
    /\ pc' = "walk"
    /\ ClearCall
    /\ UNCHANGED <<fs, runs, flags, listing, calls, results, errors, encVars>>

\* the process is interrupted (KeyboardInterrupt, kill) during the commit of
\* lines 131-138: nothing is cleaned up.  (An interruption anywhere else
\* leaves the directory as the loop's end does.)
Interrupt ==
    /\ pc \in {"dump", "mktemp", "save", "saving", "replace"}
    /\ pc' = "killed"
    /\ UNCHANGED <<fs, runs, flags, listing, idx, calls, results, errors, image_path,
                   exif_dict, tmp, hist, encVars>>

Next ==
    \/ StartRun
    \/ SkipFile
    \/ CallUpdate
    \/ Finish
    \/ OpenImage
    \/ LoadAndDecide
    \/ PredictAndCheck
    \/ Dump
    \/ MkTemp
    \/ Save
    \/ Replace
    \/ AfterCall
    \/ Interrupt

Spec == Init /\ [][Next]_vars


(***************************************************************************)
(* Properties of Spec.                                                     *)
(***************************************************************************)
\* a call of update_exif_date is under way, has just returned, or was
\* interrupted
InCall == image_path # 0

\* the file at image_path when the call began
Orig == hist.dir0[image_path]

\* the steps of the commit (lines 131-138)
CommitSteps == {"dump", "mktemp", "save", "replace"}

\* C1: at every step of the commit, after a failure of any of its steps and
\* after an interruption, the file at image_path is byte for byte the
\* original or, once os.replace has been carried out, the complete new file;
\* no other file of the directory changes except the temporary file.
AtomicCommit ==
    InCall =>
        /\ \/ fs[image_path] = Orig /\ ~hist.replaced
           \/ /\ hist.replaced
              /\ fs[image_path] = NewContent(exif_dict, Orig)
              /\ fs[image_path].data = "full"
        /\ \A n \in Names \ {image_path, tmp} : fs[n] = hist.dir0[n]

\* C1 witness: the process was interrupted while the temporary file was half
\* written, and the image is intact
AtomicCommitWitness ==
    /\ pc = "killed"
    /\ tmp # 0
    /\ fs[tmp].data = "partial"
    /\ fs[image_path] = Orig
    /\ Orig.data = "full"

\* the eligibility rule as the specification states it, on the container c
SpecEligible(c, update, force) ==
    \/ c.gps["GPSLatitude"] = "absent"
    \/ (c.gps["GPSLatitude"] # "absent" /\ MarkerPrefixed(c.emark) /\ update)
    \/ force

\* C2: an image is eligible exactly when it has no GPS latitude, or has GPS
\* data and a prefixed ProcessedMarker in the exif section and update is set,
\* or force is set.
EligibilityAsSpecified ==
    (InCall /\ hist.eligible # "none") =>
        (hist.eligible = "yes" <=> SpecEligible(LoadExif(Orig), flags.update, flags.force))

\* an image file holding an annotation committed by this program
Annotated(c) ==
    /\ c # NoFile
    /\ c.kind = "image"
    /\ c.data = "full"
    /\ c.emark = "current"
    /\ c.gps["GPSLatitude"] # "absent"

\* C3: a call on an image that holds a committed annotation, with neither
\* update nor force, skips it: the predictor is not consulted, no temporary
\* file is created, the directory is unchanged and the call returns False.
Idempotent ==
    (InCall /\ Annotated(Orig) /\ ~flags.update /\ ~flags.force) =>
        /\ ~hist.consulted
        /\ tmp = 0
        /\ fs = hist.dir0
        /\ pc \in {"open", "load", "ret"}
        /\ pc = "ret" => results[image_path] = "False"

\* C3 witness: a later invocation has skipped the image an earlier one
\* annotated
IdempotentWitness ==
    /\ pc = "ret"
    /\ image_path = 1
    /\ Annotated(Orig)
    /\ Orig.gps["GPSLatitude"] = "new"
    /\ ~flags.update /\ ~flags.force
    /\ hist.eligible = "no"
    /\ runs = 2

\* C4: with top_k predictions, the image is rejected exactly when some
\* lower-ranked prediction is more than max_distance from the top-ranked one;
\* a rejection returns False with nothing written; what an accepted call
\* merges and commits is the top-ranked coordinate.
SanityCheck ==
    (InCall /\ hist.verdict # "none" /\ hist.len = TopK) =>
        /\ hist.verdict \in {"accept", "reject"}
        /\ hist.verdict = "reject" <=> hist.maxd > max_distance
        /\ hist.verdict = "reject" =>
              /\ pc = "ret"
              /\ results[image_path] = "False"
              /\ fs = hist.dir0
              /\ tmp = 0
        /\ (hist.verdict = "accept" /\ ~flags.dry_run) => exif_dict.coord = hist.top
        /\ hist.replaced => fs[image_path].coord = hist.top

\* C4 witness: a lower-ranked prediction lies at exactly max_distance, and the
\* top-ranked coordinate has been committed
SanityCheckWitness ==
    /\ pc = "ret"
    /\ hist.len = TopK
    /\ hist.maxd = max_distance
    /\ hist.replaced
    /\ fs[image_path].coord = hist.top

\* C5: when update_exif_date returns after a failed commit step, the
\* temporary file it created is gone and the original is unmodified.
TempDiscardedOnFailure ==
    (pc = "ret" /\ hist.failed \in CommitSteps) =>
        /\ \A t \in TmpNames : fs[t] = hist.dir0[t]
        /\ fs[image_path] = Orig

\* C6: a dry-run call never reaches serialization: no temporary file is
\* created, os.replace is not called and the directory is as it was; a
\* dry-run call that returns True has taken the eligibility decision and
\* passed the sanity check.
DryRunNoMutation ==
    (InCall /\ flags.dry_run) =>
        /\ pc \in {"open", "load", "predict", "ret"}
        /\ tmp = 0
        /\ ~hist.replaced
        /\ fs = hist.dir0
        /\ (pc = "ret" /\ results[image_path] = "True") =>
              (hist.eligible = "yes" /\ hist.verdict = "accept")

\* C6 witness: a dry-run call has returned True
DryRunNoMutationWitness ==
    /\ pc = "ret"
    /\ flags.dry_run
    /\ results[image_path] = "True"
    /\ hist.verdict = "accept"

\* C7: after a commit the GPS section of the file holds exactly the tags of
\* the newly built block.
GpsReplacedWholesale ==
    (InCall /\ hist.replaced) =>
        \A t \in GpsTags :
            fs[image_path].gps[t] = (IF t \in GpsIfdKeys THEN "new" ELSE "absent")

\* C8: no error escapes update_exif_date; a call that raised logs the error
\* and returns False; no file is passed to update_exif_date twice; and when
\* the loop is over, every listed file with a supported suffix has been
\* passed exactly once, the others never.
ErrorsContained ==
    /\ pc # "crashed"
    /\ (pc = "ret" /\ hist.failed # "none") =>
          (results[image_path] = "False" /\ image_path \in errors)
    /\ \A n \in Names : calls[n] <= 1
    /\ \A n \in errors : results[n] = "False"
    /\ (pc = "idle" /\ runs > 0) =>
          \A i \in 1..Len(listing) :
              /\ calls[listing[i]] = (IF Supported(fs, listing[i]) THEN 1 ELSE 0)
              /\ Supported(fs, listing[i]) => results[listing[i]] \in {"True", "False"}

\* C8 witness: the commit of the first image failed, and the loop went on to
\* the next file and to its end
ErrorsContainedWitness ==
    /\ pc = "idle"
    /\ runs > 0
    /\ 1 \in errors
    /\ tmp = 0
    /\ \E t \in TmpNames : fs[t] # NoFile
    /\ calls[2] = 1
    /\ results[2] = "False"


(***************************************************************************)
(* EncSpec: the encoders applied to sampled arguments.                     *)
(***************************************************************************)
MainIdle ==
    /\ fs = [n \in Names |-> NoFile]
    /\ pc = "idle"
    /\ runs = MaxRuns
    /\ flags = [dry_run |-> TRUE, update |-> FALSE, force |-> FALSE]
    /\ listing = <<>>
    /\ idx = 1
    /\ calls = [n \in Names |-> 0]
    /\ results = [n \in Names |-> "none"]
    /\ errors = {}
    /\ image_path = 0
    /\ exif_dict = NoDict
    /\ tmp = 0
    /\ hist = NoHist

EncInit ==
    /\ MainIdle
    /\ encOut = <<>>
    /\ \/ \E v \in CoordSamples, axis \in {<<"S", "N">>, <<"W", "E">>} :
             encIn = [fn |-> "to_deg", value |-> v, loc |-> axis]
       \/ \E lat \in LatSamples, lng \in LngSamples, alt \in AltSamples :
             encIn = [fn |-> "gps_ifd", lat |-> lat, lng |-> lng, altitude |-> alt]

ApplyToDeg ==
    /\ encIn.fn = "to_deg"
    /\ encOut = <<>>
    /\ encOut' = to_deg(encIn.value, encIn.loc)
    /\ UNCHANGED <<mainVars, encIn>>

ApplyGpsIfd ==
    /\ encIn.fn = "gps_ifd"
    /\ encOut = <<>>
    /\ encOut' = gps_ifd(encIn.lat, encIn.lng, encIn.altitude)
    /\ UNCHANGED <<mainVars, encIn>>

EncNext == ApplyToDeg \/ ApplyGpsIfd

EncSpec == EncInit /\ [][EncNext]_vars

\* C9: gps_ifd includes the altitude reference and the altitude exactly when
\* an altitude is supplied; the reference is 0 (above sea level) for an
\* altitude >= 0 and 1 (below) for one < 0; the altitude is the single
\* rational |round(altitude)| / 1.
AltitudeEncoded ==
    (encIn.fn = "gps_ifd" /\ encOut # <<>>) =>
        LET keys == DOMAIN encOut IN
        /\ ("GPSAltitudeRef" \in keys) <=> ~encIn.altitude.none
        /\ ("GPSAltitude" \in keys) <=> ~encIn.altitude.none
        /\ ~encIn.altitude.none =>
              /\ encOut.GPSAltitudeRef = <<IF encIn.altitude.halves >= 0 THEN 0 ELSE 1>>
              /\ encOut.GPSAltitude = <<Abs(RoundHalves(encIn.altitude.halves)), 1>>
              /\ encOut.GPSAltitude[1] >= 0

\* C10: for a coordinate of absolute value at most 180, to_deg returns
\* non-negative whole degrees, minutes in 0..59 and seconds in [0, 60).
ToDegInRange ==
    (encIn.fn = "to_deg" /\ encOut # <<>>) =>
        /\ encOut[1] >= 0
        /\ encOut[2] \in 0..59
        /\ encOut[3] >= 0
        /\ encOut[3] < 60 * Scale

====
